---- MODULE Spec2Model ----
(***************************************************************************)
(* Body cards of the HTTP Toolkit UI.                                      *)
(*                                                                         *)
(*   SentResponseBodyCard    the read-only card: shows a message body as   *)
(*                           Decoded, Failed or Pending, with a selector   *)
(*                           of viewable content types.                    *)
(*   HttpBreakpointBodyCard  the editable card: shows a body buffer as     *)
(*                           editor text and emits edited bytes upward.    *)
(*                                                                         *)
(* The two cards share no state; SpecRO runs the first, SpecED the second. *)
(***************************************************************************)
EXTENDS Integers, Sequences, FiniteSets, TLC

\* ------------------------------------------------------------------ bounds
\* Number of values a message's content-type header may carry.
MaxHeaderValues == 1
\* Length of a body buffer, in bytes.
MaxLen == 2
\* Length of a text typed into the editor, in UTF-16 code units.
MaxText == 1
\* Number of entries of a raw header list.
MaxRawHeaders == 1

\* `undefined` (an absent content type, header value, ...)
Absent == "absent"

\* ------------------------------------------------------- viewable content
ViewableContentTypes == {"text", "raw", "base64", "image", "json", "html"}

\* The declared content-type header values the model draws from.
MimeTypes == {"application/json", "text/html", "image/png"}

ENCODED_DATA_CONTENT_TYPES == <<"text", "raw", "base64", "image">>

\* _.includes(collection, value)
includes(collection, value) == \E i \in DOMAIN collection : collection[i] = value

\* The last of a header's values, undefined when the header is not set.
lastHeader(values) == IF Len(values) = 0 THEN Absent ELSE values[Len(values)]

\* The fixed mapping from a declared MIME value to the compatible viewable types.
mimeCompatibleTypes(rawContentType) ==
    CASE rawContentType = "application/json" -> <<"json">>
      [] rawContentType = "text/html"        -> <<"html">>
      [] rawContentType = "image/png"        -> <<"image">>
      [] OTHER                               -> <<>>

\* The ordered set of types offered for a message: the structural type (if
\* any), then the types compatible with the declared header; the baseline
\* <<text, raw>> when neither yields anything.
getCompatibleTypes(contentType, rawContentType, body) ==
    LET own    == IF contentType = Absent THEN <<>> ELSE <<contentType>>
        fromH  == SelectSeq(mimeCompatibleTypes(rawContentType),
                            LAMBDA t : ~includes(own, t))
        types  == own \o fromH
    IN  IF Len(types) = 0 THEN <<"text", "raw">> ELSE types

\* ------------------------------------------------------------ messages
BodyStates ==
    { [decoded |-> d, decodingError |-> e] :
        d \in BOOLEAN, e \in BOOLEAN } \ { [decoded |-> TRUE, decodingError |-> TRUE] }

HeaderValueLists ==
    UNION { [1..n -> MimeTypes] : n \in 0..MaxHeaderValues }

MessageIds == {"m1", "m2"}

Messages ==
    { [present |-> TRUE, id |-> i, contentType |-> c, contentTypeHeader |-> h, body |-> b] :
        i \in MessageIds, c \in ViewableContentTypes, h \in HeaderValueLists, b \in BodyStates }

\* props.message === undefined
NoMessage ==
    [present |-> FALSE, id |-> "none", contentType |-> Absent, contentTypeHeader |-> <<>>,
     body |-> [decoded |-> FALSE, decodingError |-> FALSE]]

\* ------------------------------------------------- buffers and strings
\* A buffer is a sequence of bytes, a string a sequence of UTF-16 code units.
\* The bytes the model draws bodies from: space, '1', and the two bytes of
\* the UTF-8 form of U+00E9 (0xC3 0xA9), each of which is invalid alone. (A
\* body of one NUL byte is among the Exchanges.)
Bytes == {32, 49, 195, 169}

Buffers == UNION { [1..n -> Bytes] : n \in 0..MaxLen }

\* The code units the model draws typed text from: '1', U+00C3, U+00E9.
CodeUnits == {49, 195, 233}

Texts == UNION { [1..n -> CodeUnits] : n \in 0..MaxText }

\* A text pasted into the editor: U+00C3 U+00A9, which latin1 encodes as the
\* two bytes of the UTF-8 form of U+00E9.
PastedTexts == { <<195, 169>> }

\* UTF-8 decoding of the sequence that starts at buf[i]: the number of
\* continuation bytes the lead byte asks for, and the range allowed for the
\* first of them (the later ones are 0x80..0xBF).
utf8Need(c) ==
    CASE c >= 194 /\ c <= 223 -> 1
      [] c >= 224 /\ c <= 239 -> 2
      [] c >= 240 /\ c <= 244 -> 3
      [] OTHER                -> 0

utf8Lower(c) == IF c = 224 THEN 160 ELSE IF c = 240 THEN 144 ELSE 128

utf8Upper(c) == IF c = 237 THEN 159 ELSE IF c = 244 THEN 143 ELSE 191

\* The number of valid continuation bytes that follow the lead byte buf[i].
RECURSIVE utf8Cont(_, _, _, _)
utf8Cont(buf, i, k, need) ==
    IF k > need \/ i + k > Len(buf) THEN k - 1
    ELSE LET b  == buf[i + k]
             lo == IF k = 1 THEN utf8Lower(buf[i]) ELSE 128
             hi == IF k = 1 THEN utf8Upper(buf[i]) ELSE 191
         IN  IF b >= lo /\ b <= hi THEN utf8Cont(buf, i, k + 1, need) ELSE k - 1

\* The code point of the complete sequence of 1 + need bytes at buf[i].
utf8CodePoint(buf, i, need) ==
    CASE need = 1 -> (buf[i] - 192) * 64 + (buf[i + 1] - 128)
      [] need = 2 -> (buf[i] - 224) * 4096 + (buf[i + 1] - 128) * 64 + (buf[i + 2] - 128)
      [] need = 3 -> (buf[i] - 240) * 262144 + (buf[i + 1] - 128) * 4096
                       + (buf[i + 2] - 128) * 64 + (buf[i + 3] - 128)
      [] OTHER    -> buf[i]

\* The UTF-16 code units of a code point.
utf16Units(cp) ==
    IF cp < 65536 THEN <<cp>>
    ELSE <<55296 + ((cp - 65536) \div 1024), 56320 + ((cp - 65536) % 1024)>>

\* One decoding step at buf[i]: the units produced, the bytes consumed and
\* whether the bytes were a well-formed sequence (U+FFFD stands for an
\* ill-formed one).
utf8Step(buf, i) ==
    LET c    == buf[i]
        need == utf8Need(c)
        got  == utf8Cont(buf, i, 1, need)
    IN  IF c < 128 THEN [units |-> <<c>>, used |-> 1, ok |-> TRUE]
        ELSE IF need = 0 THEN [units |-> <<65533>>, used |-> 1, ok |-> FALSE]
        ELSE IF got = need
             THEN [units |-> utf16Units(utf8CodePoint(buf, i, need)),
                   used |-> 1 + need, ok |-> TRUE]
             ELSE [units |-> <<65533>>, used |-> 1 + got, ok |-> FALSE]

RECURSIVE utf8Decode(_, _)
utf8Decode(buf, i) ==
    IF i > Len(buf) THEN <<>>
    ELSE LET st == utf8Step(buf, i) IN st.units \o utf8Decode(buf, i + st.used)

\* Strict decoding: whether the buffer decodes without an ill-formed sequence.
RECURSIVE utf8Valid(_, _)
utf8Valid(buf, i) ==
    IF i > Len(buf) THEN TRUE
    ELSE LET st == utf8Step(buf, i) IN st.ok /\ utf8Valid(buf, i + st.used)

isHighSurrogate(u) == u >= 55296 /\ u <= 56319

isLowSurrogate(u) == u >= 56320 /\ u <= 57343

utf8Bytes(cp) ==
    IF cp < 128 THEN <<cp>>
    ELSE IF cp < 2048 THEN <<192 + (cp \div 64), 128 + (cp % 64)>>
    ELSE IF cp < 65536
         THEN <<224 + (cp \div 4096), 128 + ((cp \div 64) % 64), 128 + (cp % 64)>>
    ELSE <<240 + (cp \div 262144), 128 + ((cp \div 4096) % 64),
           128 + ((cp \div 64) % 64), 128 + (cp % 64)>>

RECURSIVE utf8Encode(_, _)
utf8Encode(str, i) ==
    IF i > Len(str) THEN <<>>
    ELSE LET u == str[i]
         IN  IF isHighSurrogate(u) /\ i < Len(str) /\ isLowSurrogate(str[i + 1])
             THEN utf8Bytes(65536 + (u - 55296) * 1024 + (str[i + 1] - 56320))
                    \o utf8Encode(str, i + 2)
             ELSE IF isHighSurrogate(u) \/ isLowSurrogate(u)
             THEN utf8Bytes(65533) \o utf8Encode(str, i + 1)
             ELSE utf8Bytes(u) \o utf8Encode(str, i + 1)

\* bufferToString(buffer, encoding): utf8 is the standard mapping, binary
\* (latin1) maps each byte to the code unit of the same value.
bufferToString(buf, encoding) ==
    IF encoding = "utf8" THEN utf8Decode(buf, 1)
    ELSE [i \in 1..Len(buf) |-> buf[i]]

\* stringToBuffer(string, encoding): binary keeps the low byte of each unit.
stringToBuffer(str, encoding) ==
    IF encoding = "utf8" THEN utf8Encode(str, 1)
    ELSE [i \in 1..Len(str) |-> str[i] % 256]

\* Control bytes other than tab, line feed and carriage return.
isControlByte(c) == (c < 32 /\ c \notin {9, 10, 13}) \/ c = 127

\* isProbablyUtf8(buffer): valid UTF-8 that is not dominated by control
\* bytes (more than half of its bytes). Empty is utf8, NUL bytes only is not.
isProbablyUtf8(buf) ==
    /\ utf8Valid(buf, 1)
    /\ 2 * Cardinality({i \in 1..Len(buf) : isControlByte(buf[i])}) <= Len(buf)

\* ------------------------------------------------------ editable content
EditableContentTypes == <<"text", "json", "html">>

HeaderValues == {"text/plain", "application/json", "image/png"}

RawHeaderLists ==
    UNION { [1..n -> { <<"content-type", v>> : v \in HeaderValues } \cup { <<"accept", "image/png">> }]
              : n \in 0..MaxRawHeaders }

\* getHeaderValue(rawHeaders, name): the value of the last header of that name.
getHeaderValue(headers, name) ==
    LET at == {i \in 1..Len(headers) : headers[i][1] = name}
    IN  IF at = {} THEN Absent
        ELSE headers[CHOOSE i \in at : \A j \in at : j <= i][2]

\* getEditableContentType(mimeType): the editable type of a MIME value, if any.
getEditableContentType(mimeType) ==
    CASE mimeType = "text/plain"       -> "text"
      [] mimeType = "application/json" -> "json"
      [] OTHER                         -> Absent

\* The external formatters, keyed by content type: only json has one here.
\* A JSON document is a run of digits with spaces around it; formatting
\* strips the spaces, and anything else is a FormatError.
hasFormatter(format) == format = "json"

formatInput(content) == bufferToString(content, "utf8")

formatResult(format, content) ==
    LET str    == formatInput(content)
        digits == SelectSeq(str, LAMBDA u : u # 32)
        ok     == /\ Len(digits) > 0
                  /\ \A i \in 1..Len(digits) : digits[i] = 49
                  /\ \A i \in 1..Len(str) :
                        (str[i] = 32) => (\A j \in 1..i : str[j] = 32)
                                           \/ (\A j \in i..Len(str) : str[j] = 32)
    IN  IF ok THEN [ok |-> TRUE, text |-> digits] ELSE [ok |-> FALSE, text |-> <<>>]

VARIABLES
    message,              \* SentResponseBodyCard: props.message
    selectedContentType,  \* SentResponseBodyCard: the stored user override
    roLife,               \* "constructed", "mounted", "unmounted"
    roSubscribed,         \* the message autorun is live
    roRaised,             \* the last step raised a TypeError
    interacted,           \* ids of the messages the user has made a selection on
    body,                 \* HttpBreakpointBodyCard: props.body
    rawHeaders,           \* HttpBreakpointBodyCard: props.rawHeaders
    contentType,          \* HttpBreakpointBodyCard: the selected editable content type
    edLife,               \* "constructed", "mounted", "unmounted"
    edSubscribed,         \* the header reaction is live
    emitted,              \* the props.onChange calls of the last step, in order
    lastOp,               \* the operation of the last step
    ran                   \* the reaction bodies that ran in the last step

roVars == <<message, selectedContentType, roLife, roSubscribed, roRaised, interacted>>

edVars == <<body, rawHeaders, contentType, edLife, edSubscribed, emitted>>

vars == <<roVars, edVars, lastOp, ran>>

\* ------------------------------------------------ SentResponseBodyCard
\* Mutant: the disposer is never called.
disposeOnUnmount_leak(subscribed) == subscribed

\* disposeOnUnmount(this, disposer): whether the subscription is still live
\* once the component has unmounted.
disposeOnUnmount(subscribed) == FALSE

\* onChangeContentType: the new value of this.selectedContentType.
\* Reading props.message.contentType of an absent message is a TypeError,
\* which leaves the field as it was (see autorun).
onChangeContentType(value, msg, current) ==
    IF ~msg.present THEN current
    ELSE IF value = msg.contentType THEN Absent
    ELSE value

\* Whether onChangeContentType raises (props.message is undefined).
onChangeContentTypeRaises(msg) == ~msg.present

\* Mutant: a stored override is shown whether or not it is offered.
render_staleOverride(msg, selected) ==
    IF ~msg.present
    THEN [view |-> "Error", selectedContentType |-> Absent, contentTypeOptions |-> <<>>]
    ELSE
    LET compatibleContentTypes ==
            getCompatibleTypes(msg.contentType, lastHeader(msg.contentTypeHeader), msg.body)
        decodedContentType == IF selected # Absent THEN selected ELSE msg.contentType
        encodedDataContentType == IF selected # Absent THEN selected ELSE "text"
    IN  IF msg.body.decoded
        THEN [view |-> "Decoded", selectedContentType |-> decodedContentType,
              contentTypeOptions |-> compatibleContentTypes]
        ELSE IF ~msg.body.decoded /\ msg.body.decodingError
        THEN [view |-> "Failed", selectedContentType |-> encodedDataContentType,
              contentTypeOptions |-> ENCODED_DATA_CONTENT_TYPES]
        ELSE [view |-> "Pending", selectedContentType |-> decodedContentType,
              contentTypeOptions |-> compatibleContentTypes]

\* Mutant: the override of a decoded body is looked up in the encoded-data list.
render_wrongList(msg, selected) ==
    IF ~msg.present
    THEN [view |-> "Error", selectedContentType |-> Absent, contentTypeOptions |-> <<>>]
    ELSE
    LET compatibleContentTypes ==
            getCompatibleTypes(msg.contentType, lastHeader(msg.contentTypeHeader), msg.body)
        decodedContentType ==
            IF includes(ENCODED_DATA_CONTENT_TYPES, selected) THEN selected ELSE msg.contentType
        encodedDataContentType ==
            IF includes(ENCODED_DATA_CONTENT_TYPES, selected) THEN selected ELSE "text"
    IN  IF msg.body.decoded
        THEN [view |-> "Decoded", selectedContentType |-> decodedContentType,
              contentTypeOptions |-> compatibleContentTypes]
        ELSE IF ~msg.body.decoded /\ msg.body.decodingError
        THEN [view |-> "Failed", selectedContentType |-> encodedDataContentType,
              contentTypeOptions |-> ENCODED_DATA_CONTENT_TYPES]
        ELSE [view |-> "Pending", selectedContentType |-> decodedContentType,
              contentTypeOptions |-> compatibleContentTypes]

\* Mutant: the failed view offers the types of the decoded view.
render_failedOffersCompatible(msg, selected) ==
    IF ~msg.present
    THEN [view |-> "Error", selectedContentType |-> Absent, contentTypeOptions |-> <<>>]
    ELSE
    LET compatibleContentTypes ==
            getCompatibleTypes(msg.contentType, lastHeader(msg.contentTypeHeader), msg.body)
        decodedContentType ==
            IF includes(compatibleContentTypes, selected) THEN selected ELSE msg.contentType
    IN  IF msg.body.decoded
        THEN [view |-> "Decoded", selectedContentType |-> decodedContentType,
              contentTypeOptions |-> compatibleContentTypes]
        ELSE IF ~msg.body.decoded /\ msg.body.decodingError
        THEN [view |-> "Failed", selectedContentType |-> decodedContentType,
              contentTypeOptions |-> compatibleContentTypes]
        ELSE [view |-> "Pending", selectedContentType |-> decodedContentType,
              contentTypeOptions |-> compatibleContentTypes]

\* Mutant: the test of the failed branch has lost its negation.
render_lostNegation(msg, selected) ==
    IF ~msg.present
    THEN [view |-> "Error", selectedContentType |-> Absent, contentTypeOptions |-> <<>>]
    ELSE
    LET compatibleContentTypes ==
            getCompatibleTypes(msg.contentType, lastHeader(msg.contentTypeHeader), msg.body)
        decodedContentType ==
            IF includes(compatibleContentTypes, selected) THEN selected ELSE msg.contentType
        encodedDataContentType ==
            IF includes(ENCODED_DATA_CONTENT_TYPES, selected) THEN selected ELSE "text"
    IN  IF msg.body.decoded
        THEN [view |-> "Decoded", selectedContentType |-> decodedContentType,
              contentTypeOptions |-> compatibleContentTypes]
        ELSE IF msg.body.decoded /\ msg.body.decodingError
        THEN [view |-> "Failed", selectedContentType |-> encodedDataContentType,
              contentTypeOptions |-> ENCODED_DATA_CONTENT_TYPES]
        ELSE [view |-> "Pending", selectedContentType |-> decodedContentType,
              contentTypeOptions |-> compatibleContentTypes]

\* Mutant: the failed view falls back to the structural type when it is one
\* of the encoded-data types.
render_failedUsesStructural(msg, selected) ==
    IF ~msg.present
    THEN [view |-> "Error", selectedContentType |-> Absent, contentTypeOptions |-> <<>>]
    ELSE
    LET compatibleContentTypes ==
            getCompatibleTypes(msg.contentType, lastHeader(msg.contentTypeHeader), msg.body)
        decodedContentType ==
            IF includes(compatibleContentTypes, selected) THEN selected ELSE msg.contentType
        encodedDataContentType ==
            IF includes(ENCODED_DATA_CONTENT_TYPES, selected) THEN selected
            ELSE IF includes(ENCODED_DATA_CONTENT_TYPES, msg.contentType) THEN msg.contentType
            ELSE "text"
    IN  IF msg.body.decoded
        THEN [view |-> "Decoded", selectedContentType |-> decodedContentType,
              contentTypeOptions |-> compatibleContentTypes]
        ELSE IF ~msg.body.decoded /\ msg.body.decodingError
        THEN [view |-> "Failed", selectedContentType |-> encodedDataContentType,
              contentTypeOptions |-> ENCODED_DATA_CONTENT_TYPES]
        ELSE [view |-> "Pending", selectedContentType |-> decodedContentType,
              contentTypeOptions |-> compatibleContentTypes]

\* render(): the view chosen and what is passed to the content type selector.
render(msg, selected) ==
    IF ~msg.present
    THEN [view |-> "Error", selectedContentType |-> Absent, contentTypeOptions |-> <<>>]
    ELSE
    LET compatibleContentTypes ==
            getCompatibleTypes(msg.contentType, lastHeader(msg.contentTypeHeader), msg.body)
        decodedContentType ==
            IF includes(compatibleContentTypes, selected) THEN selected ELSE msg.contentType
        encodedDataContentType ==
            IF includes(ENCODED_DATA_CONTENT_TYPES, selected) THEN selected ELSE "text"
    IN  IF msg.body.decoded
        THEN [view |-> "Decoded", selectedContentType |-> decodedContentType,
              contentTypeOptions |-> compatibleContentTypes]
        ELSE IF ~msg.body.decoded /\ msg.body.decodingError
        THEN [view |-> "Failed", selectedContentType |-> encodedDataContentType,
              contentTypeOptions |-> ENCODED_DATA_CONTENT_TYPES]
        ELSE [view |-> "Pending", selectedContentType |-> decodedContentType,
              contentTypeOptions |-> compatibleContentTypes]

\* What the card currently shows.
Rendered == render(message, selectedContentType)

RoInit ==
    /\ message \in Messages
    /\ selectedContentType = Absent
    /\ roLife = "constructed"
    /\ roSubscribed = FALSE
    /\ roRaised = FALSE
    /\ interacted = {}

\* The read-only card is not in use.
RoIdle ==
    /\ message = NoMessage
    /\ selectedContentType = Absent
    /\ roLife = "none"
    /\ roSubscribed = FALSE
    /\ roRaised = FALSE
    /\ interacted = {}

\* componentDidMount: the autorun is created and runs once at once.
RoComponentDidMount ==
    /\ roLife = "constructed"
    /\ roLife' = "mounted"
    /\ roSubscribed' = TRUE
    /\ roRaised' = FALSE
    /\ lastOp' = [op |-> "roMount", arg |-> Absent]
    /\ ran' = {"autorun"}
    /\ UNCHANGED <<message, selectedContentType, interacted>>
    /\ UNCHANGED edVars

\* The parent passes another props.message. A live autorun re-runs; with an
\* absent message it calls onChangeContentType(undefined), which raises, and
\* the render that follows raises too: React unmounts the card.
RoSetMessage(m) ==
    /\ roLife \in {"mounted", "unmounted"}
    /\ m # message
    /\ message' = m
    /\ IF roSubscribed
       THEN /\ ran' = {"autorun"}
            /\ IF ~m.present
               THEN /\ selectedContentType' = onChangeContentType(Absent, m, selectedContentType)
                    /\ roRaised' = onChangeContentTypeRaises(m)
                    /\ roLife' = "unmounted"
                    /\ roSubscribed' = disposeOnUnmount(roSubscribed)
               ELSE /\ roRaised' = FALSE
                    /\ UNCHANGED <<selectedContentType, roLife, roSubscribed>>
       ELSE /\ ran' = {}
            /\ roRaised' = FALSE
            /\ UNCHANGED <<selectedContentType, roLife, roSubscribed>>
    /\ lastOp' = [op |-> "roSetMessage", arg |-> Absent]
    /\ UNCHANGED interacted
    /\ UNCHANGED edVars

\* The user picks one of the options of the selector shown.
RoSelect(t) ==
    /\ roLife = "mounted"
    /\ message.present
    /\ includes(Rendered.contentTypeOptions, t)
    /\ selectedContentType' = onChangeContentType(t, message, selectedContentType)
    /\ interacted' = interacted \cup {message.id}
    /\ roRaised' = FALSE
    /\ lastOp' = [op |-> "roSelect", arg |-> t]
    /\ ran' = {}
    /\ UNCHANGED <<message, roLife, roSubscribed>>
    /\ UNCHANGED edVars

RoUnmount ==
    /\ roLife = "mounted"
    /\ roLife' = "unmounted"
    /\ roSubscribed' = disposeOnUnmount(roSubscribed)
    /\ roRaised' = FALSE
    /\ lastOp' = [op |-> "roUnmount", arg |-> Absent]
    /\ ran' = {}
    /\ UNCHANGED <<message, selectedContentType, interacted>>
    /\ UNCHANGED edVars

\* A new instance of the card is constructed for the current message.
RoConstruct ==
    /\ roLife = "unmounted"
    /\ message.present
    /\ roLife' = "constructed"
    /\ selectedContentType' = Absent
    /\ roSubscribed' = FALSE
    /\ roRaised' = FALSE
    /\ interacted' = {}
    /\ lastOp' = [op |-> "roConstruct", arg |-> Absent]
    /\ ran' = {}
    /\ UNCHANGED message
    /\ UNCHANGED edVars

\* ---------------------------------------------- HttpBreakpointBodyCard
\* Mutant: every body is shown and edited as UTF-8.
textEncoding_alwaysUtf8(buf) == "utf8"

\* textEncoding: utf8 for text data, binary (latin1) for anything else.
textEncoding(buf) == IF isProbablyUtf8(buf) THEN "utf8" ELSE "binary"

\* onBodyChange(body): the buffer handed to props.onChange.
onBodyChange(str, buf) == stringToBuffer(str, textEncoding(buf))

\* Mutant: the formatted text is dropped and the shown text is emitted again.
onBodyFormatted_ignoresResult(str, buf) ==
    onBodyChange(bufferToString(buf, textEncoding(buf)), buf)

\* The handler render() gives the header as onBodyFormatted.
onBodyFormatted(str, buf) == onBodyChange(str, buf)

\* onChangeContentType(value): the new value of this.contentType.
edOnChangeContentType(value) == value

\* The effect of the header reaction: the new value of this.contentType.
reactionEffect(contentTypeHeader) ==
    IF getEditableContentType(contentTypeHeader) = Absent
    THEN "text"
    ELSE getEditableContentType(contentTypeHeader)

\* The data function of the header reaction.
reactionData(headers) == getHeaderValue(headers, "content-type")

\* Mutant: right after the body is replaced, the text is still decoded with
\* the encoding of the body that was replaced.
edRender_staleEncoding(buf, selected) ==
    [body |-> buf,
     value |-> bufferToString(buf, IF lastOp.op = "edSetBody" THEN lastOp.arg
                                   ELSE textEncoding(buf)),
     language |-> selected,
     selectedContentType |-> selected,
     contentTypeOptions |-> EditableContentTypes]

\* render(): what is passed to the header and to the editor.
edRender(buf, selected) ==
    [body |-> buf,
     value |-> bufferToString(buf, textEncoding(buf)),
     language |-> selected,
     selectedContentType |-> selected,
     contentTypeOptions |-> EditableContentTypes]

\* What the editable card currently shows.
EdRendered == edRender(body, contentType)

\* A click on the format button: the strings handed to onFormatted, none
\* when there is no formatter for the type or when the formatter fails.
formatButtonClick(format, content) ==
    IF hasFormatter(format) /\ formatResult(format, content).ok
    THEN <<formatResult(format, content).text>>
    ELSE <<>>

EdInit ==
    /\ body \in Buffers
    /\ rawHeaders \in RawHeaderLists
    /\ contentType = "text"
    /\ edLife = "constructed"
    /\ edSubscribed = FALSE
    /\ emitted = <<>>

\* The editable card is not in use.
EdIdle ==
    /\ body = <<>>
    /\ rawHeaders = <<>>
    /\ contentType = "text"
    /\ edLife = "none"
    /\ edSubscribed = FALSE
    /\ emitted = <<>>

\* componentDidMount: the reaction is created and fires at once.
EdComponentDidMount ==
    /\ edLife = "constructed"
    /\ edLife' = "mounted"
    /\ edSubscribed' = TRUE
    /\ contentType' = reactionEffect(reactionData(rawHeaders))
    /\ emitted' = <<>>
    /\ lastOp' = [op |-> "edMount", arg |-> Absent]
    /\ ran' = {"reaction"}
    /\ UNCHANGED <<body, rawHeaders>>
    /\ UNCHANGED roVars

\* Mutant: the content type is derived from the header at mount only.
EdSetHeaders_mountOnly(h) ==
    /\ edLife \in {"mounted", "unmounted"}
    /\ h # rawHeaders
    /\ rawHeaders' = h
    /\ contentType' = contentType
    /\ ran' = {}
    /\ emitted' = <<>>
    /\ lastOp' = [op |-> "edSetHeaders", arg |-> Absent]
    /\ UNCHANGED <<body, edLife, edSubscribed>>
    /\ UNCHANGED roVars

\* The parent passes another props.rawHeaders. A live reaction runs its
\* effect when the value of the content-type header has changed.
EdSetHeaders(h) ==
    /\ edLife \in {"mounted", "unmounted"}
    /\ h # rawHeaders
    /\ rawHeaders' = h
    /\ IF edSubscribed /\ reactionData(h) # reactionData(rawHeaders)
       THEN /\ contentType' = reactionEffect(reactionData(h))
            /\ ran' = {"reaction"}
       ELSE /\ contentType' = contentType
            /\ ran' = {}
    /\ emitted' = <<>>
    /\ lastOp' = [op |-> "edSetHeaders", arg |-> Absent]
    /\ UNCHANGED <<body, edLife, edSubscribed>>
    /\ UNCHANGED roVars

\* The parent passes another props.body; the step records the encoding of
\* the body it replaces.
EdSetBody(b) ==
    /\ edLife \in {"mounted", "unmounted"}
    /\ b # body
    /\ body' = b
    /\ emitted' = <<>>
    /\ lastOp' = [op |-> "edSetBody", arg |-> textEncoding(body)]
    /\ ran' = {}
    /\ UNCHANGED <<rawHeaders, contentType, edLife, edSubscribed>>
    /\ UNCHANGED roVars

\* Mutant: the reaction does not run when the exchange is switched.
EdSetProps_noReaction(x) ==
    /\ edLife \in {"mounted", "unmounted"}
    /\ x.body # body
    /\ body' = x.body
    /\ rawHeaders' = x.rawHeaders
    /\ contentType' = contentType
    /\ ran' = {}
    /\ emitted' = <<>>
    /\ lastOp' = [op |-> "edSetProps", arg |-> Absent]
    /\ UNCHANGED <<edLife, edSubscribed>>
    /\ UNCHANGED roVars

\* Mutant: the reaction runs its effect at every switch of the exchange,
\* whether or not the value of the header has changed.
EdSetProps_alwaysDerives(x) ==
    /\ edLife \in {"mounted", "unmounted"}
    /\ x.body # body
    /\ body' = x.body
    /\ rawHeaders' = x.rawHeaders
    /\ IF edSubscribed
       THEN /\ contentType' = reactionEffect(reactionData(x.rawHeaders))
            /\ ran' = {"reaction"}
       ELSE /\ contentType' = contentType
            /\ ran' = {}
    /\ emitted' = <<>>
    /\ lastOp' = [op |-> "edSetProps", arg |-> Absent]
    /\ UNCHANGED <<edLife, edSubscribed>>
    /\ UNCHANGED roVars

\* The parent passes the body and the headers of another exchange in one
\* update. A live reaction runs its effect, before the render, when the
\* value of the content-type header has changed.
EdSetProps(x) ==
    /\ edLife \in {"mounted", "unmounted"}
    /\ x.body # body
    /\ body' = x.body
    /\ rawHeaders' = x.rawHeaders
    /\ IF edSubscribed /\ reactionData(x.rawHeaders) # reactionData(rawHeaders)
       THEN /\ contentType' = reactionEffect(reactionData(x.rawHeaders))
            /\ ran' = {"reaction"}
       ELSE /\ contentType' = contentType
            /\ ran' = {}
    /\ emitted' = <<>>
    /\ lastOp' = [op |-> "edSetProps", arg |-> Absent]
    /\ UNCHANGED <<edLife, edSubscribed>>
    /\ UNCHANGED roVars

\* The parent takes the buffer it was handed by onChange as the new
\* props.body; the step keeps the text that was encoded.
EdAccept ==
    /\ edLife = "mounted"
    /\ lastOp.op \in {"edEdit", "edFormat"}
    /\ Len(emitted) = 1
    /\ body' = emitted[1]
    /\ emitted' = <<>>
    /\ lastOp' = [op |-> "edAccept", arg |-> lastOp.arg]
    /\ ran' = {}
    /\ UNCHANGED <<rawHeaders, contentType, edLife, edSubscribed>>
    /\ UNCHANGED roVars

\* The user picks one of the options of the selector.
EdSelect(t) ==
    /\ edLife = "mounted"
    /\ includes(EdRendered.contentTypeOptions, t)
    /\ contentType' = edOnChangeContentType(t)
    /\ emitted' = <<>>
    /\ lastOp' = [op |-> "edSelect", arg |-> t]
    /\ ran' = {}
    /\ UNCHANGED <<body, rawHeaders, edLife, edSubscribed>>
    /\ UNCHANGED roVars

\* Mutant: the edit is also written into the card's own body.
EdEdit_writesBody(str) ==
    /\ edLife = "mounted"
    /\ emitted' = <<onBodyChange(str, body)>>
    /\ body' = onBodyChange(str, body)
    /\ lastOp' = [op |-> "edEdit", arg |-> str]
    /\ ran' = {}
    /\ UNCHANGED <<rawHeaders, contentType, edLife, edSubscribed>>
    /\ UNCHANGED roVars

\* The editor reports its text after an edit: onBodyChange(str).
EdEdit(str) ==
    /\ edLife = "mounted"
    /\ emitted' = <<onBodyChange(str, body)>>
    /\ lastOp' = [op |-> "edEdit", arg |-> str]
    /\ ran' = {}
    /\ UNCHANGED <<body, rawHeaders, contentType, edLife, edSubscribed>>
    /\ UNCHANGED roVars

\* The user clicks the format button of the header.
EdFormat ==
    /\ edLife = "mounted"
    /\ hasFormatter(EdRendered.selectedContentType)
    /\ LET out == formatButtonClick(EdRendered.selectedContentType, EdRendered.body)
       IN  /\ emitted' = [i \in 1..Len(out) |-> onBodyFormatted(out[i], body)]
           /\ lastOp' = [op |-> IF Len(out) = 0 THEN "edFormatFailed" ELSE "edFormat",
                         arg |-> IF Len(out) = 0 THEN Absent ELSE out[1]]
    /\ ran' = {}
    /\ UNCHANGED <<body, rawHeaders, contentType, edLife, edSubscribed>>
    /\ UNCHANGED roVars

EdUnmount ==
    /\ edLife = "mounted"
    /\ edLife' = "unmounted"
    /\ edSubscribed' = disposeOnUnmount(edSubscribed)
    /\ emitted' = <<>>
    /\ lastOp' = [op |-> "edUnmount", arg |-> Absent]
    /\ ran' = {}
    /\ UNCHANGED <<body, rawHeaders, contentType>>
    /\ UNCHANGED roVars

\* A new instance of the card is constructed for the current props.
EdConstruct ==
    /\ edLife = "unmounted"
    /\ edLife' = "constructed"
    /\ contentType' = "text"
    /\ edSubscribed' = FALSE
    /\ emitted' = <<>>
    /\ lastOp' = [op |-> "edConstruct", arg |-> Absent]
    /\ ran' = {}
    /\ UNCHANGED <<body, rawHeaders>>
    /\ UNCHANGED roVars

\* ------------------------------------------------------- specifications
InitRO ==
    /\ RoInit
    /\ EdIdle
    /\ lastOp = [op |-> "init", arg |-> Absent]
    /\ ran = {}

InitED ==
    /\ EdInit
    /\ RoIdle
    /\ lastOp = [op |-> "init", arg |-> Absent]
    /\ ran = {}

NextRO ==
    \/ RoComponentDidMount
    \/ \E m \in Messages \cup {NoMessage} : RoSetMessage(m)
    \/ \E t \in ViewableContentTypes : RoSelect(t)
    \/ RoUnmount
    \/ RoConstruct

\* The exchanges the editable card is switched between.
Exchanges ==
    { [body |-> <<49>>,  rawHeaders |-> << <<"content-type", "application/json">> >>],
      [body |-> <<195>>, rawHeaders |-> << <<"content-type", "application/json">> >>],
      [body |-> <<0>>,   rawHeaders |-> << <<"content-type", "text/plain">> >>],
      [body |-> <<>>,    rawHeaders |-> <<>>] }

NextED ==
    \/ EdComponentDidMount
    \/ \E h \in RawHeaderLists : EdSetHeaders(h)
    \/ \E b \in Buffers : EdSetBody(b)
    \/ \E x \in Exchanges : EdSetProps(x)
    \/ EdAccept
    \/ \E t \in {"text", "json", "html"} : EdSelect(t)
    \/ \E str \in Texts \cup PastedTexts \cup {EdRendered.value} : EdEdit(str)
    \/ EdFormat
    \/ EdUnmount
    \/ EdConstruct

SpecRO == InitRO /\ [][NextRO]_vars

SpecED == InitED /\ [][NextED]_vars

\* Both cards side by side, over a few messages, bodies and header lists.
LifeMessages ==
    { m \in Messages : /\ m.id = "m1"
                       /\ m.contentType \in {"json", "text"}
                       /\ m.body.decoded }

LifeBuffers == { <<>>, <<49>>, <<195>> }

LifeHeaders ==
    { <<>>, << <<"content-type", "text/plain">> >>, << <<"content-type", "application/json">> >> }

InitLife ==
    /\ RoInit
    /\ message \in LifeMessages
    /\ EdInit
    /\ body \in LifeBuffers
    /\ rawHeaders \in LifeHeaders
    /\ lastOp = [op |-> "init", arg |-> Absent]
    /\ ran = {}

NextLife ==
    \/ RoComponentDidMount
    \/ \E m \in LifeMessages \cup {NoMessage} : RoSetMessage(m)
    \/ \E t \in ViewableContentTypes : RoSelect(t)
    \/ RoUnmount
    \/ RoConstruct
    \/ EdComponentDidMount
    \/ \E h \in LifeHeaders : EdSetHeaders(h)
    \/ \E b \in LifeBuffers : EdSetBody(b)
    \/ \E t \in {"text", "json", "html"} : EdSelect(t)
    \/ EdEdit(EdRendered.value)
    \/ EdFormat
    \/ EdUnmount
    \/ EdConstruct

SpecLife == InitLife /\ [][NextLife]_vars

\* ---------------------------------------------------------------- claims
\* The read-only card is showing something.
RoShown == roLife \in {"constructed", "mounted"} /\ message.present

\* The type the read-only card shows when there is no override.
AutomaticType == render(message, Absent).selectedContentType

\* C1: in the Pending, Decoded and Failed views alike, the content type the
\* read-only card passes to the selector as its value is one of the options
\* it passes to the same selector.
C1_SelectedIsAnOption ==
    RoShown => includes(Rendered.contentTypeOptions, Rendered.selectedContentType)

\* A failed body is shown while the stored override is not one of the types
\* offered for it.
C1_Witness ==
    /\ roLife = "mounted"
    /\ Rendered.view = "Failed"
    /\ selectedContentType # Absent
    /\ ~includes(Rendered.contentTypeOptions, selectedContentType)

\* C2: when the message is replaced by one that does not offer the pinned
\* override, the type shown next is offered for the new message and is not
\* the stale override.
C2_StaleOverrideNotShown ==
    [][ ( /\ roLife = "mounted" /\ roLife' = "mounted"
          /\ selectedContentType # Absent
          /\ message' # message
          /\ ~includes(Rendered'.contentTypeOptions, selectedContentType) )
        => ( /\ includes(Rendered'.contentTypeOptions, Rendered'.selectedContentType)
             /\ Rendered'.selectedContentType # selectedContentType ) ]_vars

\* A decoded message has just replaced another, and the override pinned
\* before is not offered for it.
C2_Witness ==
    /\ roLife = "mounted"
    /\ lastOp.op = "roSetMessage"
    /\ Rendered.view = "Decoded"
    /\ selectedContentType \in {"image", "html"}
    /\ ~includes(Rendered.contentTypeOptions, selectedContentType)

\* C3: the text shown for a body, handed back unchanged through
\* onBodyChange, is emitted as exactly the bytes of the body, with the utf8
\* and with the binary encoding.
C3_RoundTrip ==
    (lastOp.op = "edEdit" /\ lastOp.arg = EdRendered.value) => emitted = <<body>>

\* The unchanged text of a body that is not valid UTF-8 has been handed back.
C3_Witness ==
    /\ lastOp.op = "edEdit"
    /\ lastOp.arg = EdRendered.value
    /\ textEncoding(body) = "binary"
    /\ \E i \in 1..Len(body) : body[i] >= 128

\* C4: with a decoding error and no decoded body, the types offered are
\* exactly text, raw, base64 and image, whatever the structural type, the
\* declared header and the override are.
C4_FailedOffersEncodedTypes ==
    (RoShown /\ message.body.decodingError /\ ~message.body.decoded)
        => /\ Len(Rendered.contentTypeOptions) = 4
           /\ { Rendered.contentTypeOptions[i] : i \in 1..4 } = {"text", "raw", "base64", "image"}

\* A json message declared as json has failed to decode while an override
\* is stored.
C4_Witness ==
    /\ roLife = "mounted"
    /\ message.present
    /\ message.body.decodingError
    /\ message.contentType = "json"
    /\ lastHeader(message.contentTypeHeader) = "application/json"
    /\ selectedContentType = "raw"

\* C5: the view is a projection of the body of the current message: Decoded
\* exactly with decoded bytes, Failed exactly with a decoding error, Pending
\* exactly with neither, whatever the stored override is.
C5_ViewIsProjection ==
    RoShown =>
        /\ (Rendered.view = "Decoded") <=> message.body.decoded
        /\ (Rendered.view = "Failed") <=> message.body.decodingError
        /\ (Rendered.view = "Pending") <=>
               (~message.body.decoded /\ ~message.body.decodingError)
        /\ \A o \in ViewableContentTypes \cup {Absent} :
               render(message, o).view = Rendered.view

\* A failed message has replaced another while an override is stored.
C5_Witness ==
    /\ roLife = "mounted"
    /\ lastOp.op = "roSetMessage"
    /\ Rendered.view = "Failed"
    /\ selectedContentType # Absent

\* C6: when the message is replaced by a different one the user has not
\* interacted with, the stored override becomes absent.
C6_OverrideClearedOnNewMessage ==
    [][ ( /\ roLife = "mounted" /\ roLife' = "mounted"
          /\ message'.id # message.id
          /\ message'.id \notin interacted )
        => selectedContentType' = Absent ]_vars

\* C7: after a selection of the type the current view shows automatically
\* the stored override is absent, and a stored override never equals the
\* automatic type.
C7_OverrideNeverAutomatic ==
    /\ (RoShown /\ lastOp.op = "roSelect" /\ lastOp.arg = AutomaticType)
           => selectedContentType = Absent
    /\ (RoShown /\ selectedContentType # Absent)
           => selectedContentType # AutomaticType

\* The type derived from the value of the content-type header.
EditableTypeOf(headers) ==
    LET t == getEditableContentType(getHeaderValue(headers, "content-type"))
    IN  IF t = Absent THEN "text" ELSE t

\* C8: the header reaction fires at mount and at every later change of the
\* value of the content-type header while mounted, and right after each
\* firing the selected type is the one derived from the current value.
C8_ReactionFollowsHeader ==
    [][ /\ (edLife = "constructed" /\ edLife' = "mounted")
            => ("reaction" \in ran' /\ contentType' = EditableTypeOf(rawHeaders'))
        /\ ( /\ edLife = "mounted" /\ edLife' = "mounted"
             /\ getHeaderValue(rawHeaders', "content-type")
                  # getHeaderValue(rawHeaders, "content-type") )
            => ("reaction" \in ran' /\ contentType' = EditableTypeOf(rawHeaders')) ]_vars

\* The header of a mounted card has just changed to application/json and the
\* reaction has made json the selected type.
C8_Witness ==
    /\ edLife = "mounted"
    /\ lastOp.op = "edSetHeaders"
    /\ "reaction" \in ran
    /\ getHeaderValue(rawHeaders, "content-type") = "application/json"
    /\ contentType = "json"

\* C9: once a card is unmounted, no change of headers or message changes
\* its selected content type or runs its reaction body.
C9_NothingAfterUnmount ==
    [][ /\ (edLife = "unmounted" /\ edLife' = "unmounted")
            => (contentType' = contentType /\ "reaction" \notin ran')
        /\ (roLife = "unmounted" /\ roLife' = "unmounted")
            => (selectedContentType' = selectedContentType /\ "autorun" \notin ran') ]_vars

\* Both cards are unmounted, the header has changed since, and the selected
\* type of the editable card has not followed it.
C9_Witness ==
    /\ edLife = "unmounted"
    /\ roLife = "unmounted"
    /\ lastOp.op = "edSetHeaders"
    /\ contentType # EditableTypeOf(rawHeaders)

\* C10: a format request that fails emits nothing and leaves the bytes and
\* the text given to the editor as they were; one that succeeds emits the
\* bytes a manual edit to the formatted text would emit.
C10_FormatLikeAnEdit ==
    [][ (lastOp'.op \in {"edFormat", "edFormatFailed"}) =>
          IF formatResult(contentType, body).ok
          THEN /\ emitted' = <<stringToBuffer(formatResult(contentType, body).text,
                                             textEncoding(body))>>
               /\ EdRendered' = EdRendered
          ELSE /\ emitted' = <<>>
               /\ EdRendered' = EdRendered ]_vars

\* A format request on a malformed body has failed.
C10_Witness ==
    /\ lastOp.op = "edFormatFailed"
    /\ contentType = "json"
    /\ Len(body) > 0
    /\ ~formatResult("json", body).ok
    /\ emitted = <<>>

\* C11: while the message is Pending, no user interaction changes the stored
\* override.
C11_PendingSelectorInert ==
    [][ (roLife = "mounted" /\ Rendered.view = "Pending" /\ lastOp'.op = "roSelect")
        => selectedContentType' = selectedContentType ]_vars

\* The encoding the editable card derives from a buffer.
Classify(buf) == IF isProbablyUtf8(buf) THEN "utf8" ELSE "binary"

\* C12: an editor text change leaves the selected type, the body and the
\* rest of the card as they were; its only effect is one onChange call with
\* the text encoded in the encoding derived from the current body.
C12_EditOnlyEmits ==
    [][ (lastOp'.op = "edEdit")
        => /\ contentType' = contentType
           /\ body' = body
           /\ rawHeaders' = rawHeaders
           /\ edLife' = edLife
           /\ edSubscribed' = edSubscribed
           /\ emitted' = <<stringToBuffer(lastOp'.arg, Classify(body))>> ]_vars

\* A text other than the one shown has been typed over a binary body and
\* bytes other than the body's have been emitted.
C12_Witness ==
    /\ lastOp.op = "edEdit"
    /\ lastOp.arg # EdRendered.value
    /\ Classify(body) = "binary"
    /\ Len(emitted) = 1
    /\ emitted[1] # body

\* The resolution rule as claimed: the override when offered, otherwise the
\* structural type when offered, otherwise the first type offered.
resolveEffective(offerable, override, structuralType) ==
    IF override # Absent /\ includes(offerable, override) THEN override
    ELSE IF structuralType # Absent /\ includes(offerable, structuralType) THEN structuralType
    ELSE offerable[1]

\* C13 (as claimed): in every view the type shown follows the resolution
\* rule over the types offered in that view.
C13_ResolutionRule ==
    RoShown => Rendered.selectedContentType
                 = resolveEffective(Rendered.contentTypeOptions, selectedContentType,
                                    message.contentType)

\* C13 (amended): the type shown is the override when it is offered;
\* otherwise the structural type in the Decoded and Pending views, and the
\* first type offered (text) in the Failed view, whatever the structural
\* type is.
C13_ResolutionRuleAmended ==
    RoShown => Rendered.selectedContentType
                 = IF selectedContentType # Absent
                      /\ includes(Rendered.contentTypeOptions, selectedContentType)
                   THEN selectedContentType
                   ELSE IF Rendered.view = "Failed"
                   THEN Rendered.contentTypeOptions[1]
                   ELSE message.contentType

\* A failed message whose structural type is one of the four offered is
\* shown without an applicable override.
C13_Witness ==
    /\ roLife = "mounted"
    /\ Rendered.view = "Failed"
    /\ message.contentType \in {"raw", "base64", "image"}
    /\ ~includes(Rendered.contentTypeOptions, selectedContentType)
    /\ Rendered.selectedContentType = "text"

\* C14: the text shown is the body decoded with the classification of the
\* current body, also right after the body was replaced by one of another
\* classification, and an edit is encoded with that same classification.
C14_EncodingOfCurrentBody ==
    /\ (edLife \in {"constructed", "mounted"})
           => EdRendered.value = bufferToString(body, Classify(body))
    /\ (lastOp.op = "edEdit")
           => emitted = <<stringToBuffer(lastOp.arg, Classify(body))>>

\* The body has just been replaced by one of another classification, and
\* the encoding of the replaced body would show another text.
C14_Witness ==
    /\ edLife = "mounted"
    /\ lastOp.op = "edSetBody"
    /\ lastOp.arg # Classify(body)
    /\ bufferToString(body, lastOp.arg) # EdRendered.value

\* C15: when the message changes so that the pinned override is no longer
\* offered, the stored override becomes absent.
C15_StaleOverrideDiscarded ==
    [][ ( /\ roLife = "mounted" /\ roLife' = "mounted"
          /\ selectedContentType # Absent
          /\ message' # message
          /\ ~includes(render(message', Absent).contentTypeOptions, selectedContentType) )
        => selectedContentType' = Absent ]_vars

C17_FailedSelectionShown ==
    (roLife = "mounted" /\ lastOp.op = "roSelect" /\ Rendered.view = "Failed")
        => Rendered.selectedContentType = lastOp.arg

\* C18: once the bytes emitted for a typed text have come back as the body,
\* the text shown is the text that was typed.
C18_TypedTextComesBack ==
    (edLife = "mounted" /\ lastOp.op = "edAccept") => EdRendered.value = lastOp.arg

\* C19: apart from a selection by hand, the selected type of a mounted card
\* changes only when the value of the content-type header changes, and then
\* to the type derived from the new value: it stays across edits, format
\* requests and replacements of the body or of the exchange.
C19_SelectionSticksToHeaderValue ==
    [][ (edLife = "mounted" /\ edLife' = "mounted" /\ lastOp'.op # "edSelect")
        => contentType' =
             IF getHeaderValue(rawHeaders', "content-type")
                  = getHeaderValue(rawHeaders, "content-type")
             THEN contentType
             ELSE EditableTypeOf(rawHeaders') ]_vars

\* The exchange has just been switched and the type selected by hand, which
\* no header value of the model yields, is still selected.
C19_Witness ==
    /\ edLife = "mounted"
    /\ lastOp.op = "edSetProps"
    /\ contentType = "html"
    /\ EditableTypeOf(rawHeaders) # "html"

\* C20: when the message becomes absent, the autorun resets the stored
\* override to absent and raises no error.
C20_AbsentMessageResets ==
    [][ (roSubscribed /\ message.present /\ ~message'.present)
        => (selectedContentType' = Absent /\ ~roRaised') ]_vars

====
